---- MODULE Spec2Model ----
(***************************************************************************)
(* Model of the bridge's ProcessManager (services/processManager.ts):      *)
(* the registry of web chats, one spawned child process per accepted       *)
(* message, the stdout line handler, the approval sub-protocol and the     *)
(* lifecycle handlers.  Every action is one handler of the Node event      *)
(* loop, run to completion.                                                *)
(***************************************************************************)
EXTENDS Integers, Sequences, FiniteSets, TLC

\* ---------------------------------------------------------------- bounds
MaxChats == 2       \* chats ever created in the registry scenarios
MaxProcs == 2       \* child processes ever spawned
MaxRequests == 2    \* distinct request ids a child may use

ChatIds == {1}       \* the chat the one-chat scenarios follow
RegistryIds == 1..(MaxChats + 1)    \* chat ids a caller may pass: the last is never created
RequestIds == {"req-" \o ToString(i) : i \in 1..MaxRequests}

\* ------------------------------------------------------- value universes
Undefined == "undefined"
NoProcess == 0

PermissionModes == {"assisted", "full_ai"}
SystemPrompts == {Undefined, "be brief"}
ExistingSessionIds == {Undefined, "sess-old"}
Messages == {"hello"}
AttachmentLists == {<<>>, <<[name |-> "a.png", media_type |-> "image/png", data |-> "AAAA"]>>}
ToolNames == {"Bash", "Task"}
ToolUseIds == {Undefined, "toolu-1"}
ToolInputs == {"input-A"}
UpdatedInputs == {Undefined, "input-B"}
DenyMessages == {Undefined, "", "not now"}
ExitCodes == {"0", "1", "null"}     \* "null": the child was ended by a signal

\* ------------------------------------------------------------- variables
VARIABLES
    chats,      \* keys of ProcessManager.chats
    managed,    \* the ManagedChat objects, by chat id (also the ones cleanup removed:
                \* the process handlers keep their reference)
    procs,      \* the child processes spawned so far, by spawn order
    origin      \* per chat and pending request id: the child whose stdout line
                \* carried the request (NoProcess when the id is not pending)

vars == <<chats, managed, procs, origin>>

\* Map<string, ApprovalRequest>: insertion-ordered, keys unique
MapHas(m, k) == \E i \in DOMAIN m : m[i].request_id = k
MapGet(m, k) == m[CHOOSE i \in DOMAIN m : m[i].request_id = k]
MapSet_KeepsFirst(m, k, v) ==
    IF m # <<>> THEN m ELSE Append(m, v)
MapSet(m, k, v) ==
    IF MapHas(m, k)
    THEN [i \in DOMAIN m |-> IF m[i].request_id = k THEN v ELSE m[i]]
    ELSE Append(m, v)
MapDelete_Oldest(m, k) == Tail(m)
MapDelete(m, k) == SelectSeq(m, LAMBDA r : r.request_id # k)
MapKeys(m) == {m[i].request_id : i \in DOMAIN m}

\* JSON.stringify drops the properties whose value is undefined
JsonStringify(obj) == [f \in {g \in DOMAIN obj : obj[g] # Undefined} |-> obj[f]]

\* the session id createChat draws with randomUUID()
RandomUUID(id) == "uuid-" \o ToString(id)

\* a handler's working state: the registry, the chat objects, the children,
\* and what the handler has emitted (in order), written to a child's stdin (in
\* order), the children it has sent SIGTERM, what it has returned so far, and
\* whether an exception is propagating
World == [chats |-> chats, managed |-> managed, procs |-> procs,
          emitted |-> <<>>, written |-> <<>>, signals |-> <<>>, ret |-> Undefined,
          thrown |-> FALSE]

\* the state a handler leaves, as the next handler finds it
Entry(w) == [w EXCEPT !.emitted = <<>>, !.written = <<>>, !.signals = <<>>,
                      !.ret = Undefined, !.thrown = FALSE]

\* throw, and try { ... } catch { }
Throw(w) == [w EXCEPT !.thrown = TRUE]
Catch_Rethrows(w) == w
Catch(w) == [w EXCEPT !.thrown = FALSE]

\* this.chats.get(chatId) finds a chat
ChatsHas_EverCreated(w, chatId) == chatId \in DOMAIN w.managed
ChatsHas(w, chatId) == chatId \in w.chats

\* the id of the chat createChat registers next
NextChatId == Len(managed) + 1

Emit(w, e) == [w EXCEPT !.emitted = Append(@, e)]

Return(w, v) == [w EXCEPT !.ret = v]

\* process.stdin.write(line): the pipe is destroyed once the child has exited
StdinWrite(w, pid, line) ==
    [w EXCEPT !.written = Append(@, [pid |-> pid, line |-> line,
                                      destroyed |-> w.procs[pid].state # "running"])]

\* is line a can_use_tool control_request carrying request id r
IsApprovalRequest(line, r) ==
    /\ line.json
    /\ line.msg.type = "control_request"
    /\ line.msg.request.subtype = "can_use_tool"
    /\ line.msg.request_id = r

NoLine == [json |-> FALSE, text |-> ""]

\* the handler's effects on the objects become the next state; pid and line
\* name the stdout line being handled (NoProcess, NoLine for the other handlers)
CommitLine(w, pid, line) ==
    /\ chats' = w.chats
    /\ managed' = w.managed
    /\ procs' = w.procs
    /\ origin' = [c \in DOMAIN w.managed |-> [r \in RequestIds |->
                    IF ~MapHas(w.managed[c].pendingApprovals, r) THEN NoProcess
                    ELSE IF pid # NoProcess /\ procs[pid].chat = c /\ IsApprovalRequest(line, r)
                    THEN pid
                    ELSE origin[c][r]]]

Commit(w) == CommitLine(w, NoProcess, NoLine)

\* a failed spawn delivers the child's 'error' event before any other handler runs
NoPendingError == \A p \in DOMAIN procs : procs[p].state # "spawn_failed"

StatusEvent(chatId, status, processState, error) ==
    [event |-> "chat_status", chat_id |-> chatId, status |-> status,
     process_state |-> processState, error |-> error]

TranscriptEntry(chatId, type, content) ==
    [event |-> "transcript_entry", chat_id |-> chatId, type |-> type, content |-> content]

\* ------------------------------------------------------------------ Init
Init ==
    /\ chats = {}
    /\ managed = <<>>
    /\ procs = <<>>
    /\ origin = <<>>

\* ------------------------------------------------------------ createChat
\* id: the fresh chat id (randomUUID().slice(0, 8))
createChat_AutoOn(w, id, systemPrompt, existingSessionId, permissionMode) ==
    LET sessionId == IF existingSessionId # Undefined THEN existingSessionId ELSE RandomUUID(id)
        chat == [id |-> id, status |-> "running", pid |-> NoProcess, session_id |-> sessionId]
        m == [chat |-> chat, sessionId |-> sessionId, systemPrompt |-> systemPrompt,
              permissionMode |-> permissionMode, isProcessing |-> FALSE,
              processState |-> "idle",
              messageCount |-> IF existingSessionId # Undefined THEN 1 ELSE 0,
              currentProcess |-> NoProcess, stdoutRL |-> NoProcess,
              pendingApprovals |-> <<>>, autoApprove |-> TRUE]
        w1 == [w EXCEPT !.chats = @ \cup {id}, !.managed = Append(@, m)]
    IN  Return(Emit(w1, StatusEvent(id, "running", Undefined, Undefined)), id)
createChat(w, id, systemPrompt, existingSessionId, permissionMode) ==
    LET sessionId == IF existingSessionId # Undefined THEN existingSessionId ELSE RandomUUID(id)
        isResume == existingSessionId # Undefined
        chat == [id |-> id, status |-> "running", pid |-> NoProcess, session_id |-> sessionId]
        m == [chat |-> chat,
              sessionId |-> sessionId,
              systemPrompt |-> systemPrompt,
              permissionMode |-> permissionMode,
              isProcessing |-> FALSE,
              processState |-> "idle",
              messageCount |-> IF isResume THEN 1 ELSE 0,
              currentProcess |-> NoProcess,
              stdoutRL |-> NoProcess,
              pendingApprovals |-> <<>>,
              autoApprove |-> FALSE]
        w1 == [w EXCEPT !.chats = @ \cup {id}, !.managed = Append(@, m)]
    IN  Return(Emit(w1, StatusEvent(id, "running", Undefined, Undefined)), id)

CreateChat(systemPrompt, existingSessionId, permissionMode) ==
    /\ NoPendingError
    /\ NextChatId <= MaxChats
    /\ Commit(createChat(World, NextChatId, systemPrompt, existingSessionId, permissionMode))

\* ----------------------------------------------------------- sendMessage
\* the spawn arguments
\* the permission flags
PermissionArgs_Skip(m) == <<"--dangerously-skip-permissions">>
PermissionArgs(m) ==
    IF m.permissionMode = "full_ai"
    THEN <<"--dangerously-skip-permissions">>
    ELSE <<"--permission-mode", "default", "--permission-prompt-tool", "stdio">>

SpawnArgs_AlwaysNew(m) ==
    <<"-p", "--verbose", "--output-format", "stream-json",
      "--input-format", "stream-json", "--max-turns", "50",
      "--session-id", m.sessionId>>
SpawnArgs(m) ==
    <<"-p", "--verbose", "--output-format", "stream-json",
      "--input-format", "stream-json", "--max-turns", "50">>
    \o PermissionArgs(m)
    \o (IF m.messageCount = 0
        THEN <<"--session-id", m.sessionId>>
             \o (IF m.systemPrompt # Undefined
                 THEN <<"--append-system-prompt", m.systemPrompt>> ELSE <<>>)
        ELSE <<"--resume", m.sessionId>>)

\* the stale-flag test of sendMessage
StaleProcessing(w, m) ==
    /\ m.isProcessing
    /\ \/ m.currentProcess = NoProcess
       \/ w.procs[m.currentProcess].killed
       \/ w.procs[m.currentProcess].exitCode # "null"

\* the message the delayed write sends
UserMsg(message, attachments) ==
    LET blocks == [i \in DOMAIN attachments |->
                     [type |-> "image",
                      source |-> [type |-> "base64",
                                  media_type |-> attachments[i].media_type,
                                  data |-> attachments[i].data]]]
                  \o (IF message # "" THEN <<[type |-> "text", text |-> message]>> ELSE <<>>)
    IN  IF Len(attachments) > 0
        THEN [type |-> "user", message |-> [role |-> "user", content |-> blocks]]
        ELSE [type |-> "user", message |-> [role |-> "user", content |-> message]]

\* spawnOk = FALSE: the executable cannot be started
\* the reset of a stale processing flag
ResetStale_KeepsFlag(m) == [m EXCEPT !.processState = "idle"]
ResetStale(m) == [m EXCEPT !.isProcessing = FALSE, !.processState = "idle"]

\* managed.messageCount++
CountMessage_OnlyFirst(m) == [m EXCEPT !.messageCount = 1]
CountMessage(m) == [m EXCEPT !.messageCount = @ + 1]

sendMessage(w, chatId, message, attachments, spawnOk) ==
    IF ~ChatsHas(w, chatId) THEN Return(w, FALSE)
    ELSE
    LET m0 == w.managed[chatId]
        m1 == IF StaleProcessing(w, m0) THEN ResetStale(m0) ELSE m0
    IN
    IF m1.isProcessing THEN Return([w EXCEPT !.managed[chatId] = m1], FALSE)
    ELSE
    LET pid == Len(w.procs) + 1
        proc == [chat |-> chatId,
                 args |-> SpawnArgs(m1),
                 state |-> IF spawnOk THEN "running" ELSE "spawn_failed",
                 killed |-> FALSE,
                 exitCode |-> "null",
                 rlOpen |-> TRUE,
                 timer |-> "pending",
                 userMsg |-> UserMsg(message, attachments)]
        m2 == [CountMessage(m1) EXCEPT
                         !.isProcessing = TRUE,
                         !.processState = "processing",
                         !.currentProcess = pid,
                         !.chat = [@ EXCEPT !.pid = IF spawnOk THEN pid ELSE NoProcess],
                         !.stdoutRL = pid]
        w1 == Emit(w, StatusEvent(chatId, "running", "processing", Undefined))
        w2 == [w1 EXCEPT !.managed[chatId] = m2, !.procs = Append(@, proc)]
    IN  Return(w2, TRUE)

SendMessage(chatId, message, attachments, spawnOk) ==
    LET w == sendMessage(World, chatId, message, attachments, spawnOk)
    IN  /\ NoPendingError
        /\ Len(w.procs) <= MaxProcs
        /\ Commit(w)

\* ----------------------------------------------------- respondToApproval
Falsy(x) == x \in {Undefined, ""}

ControlResponse_IgnoresEdit(response, request) ==
    [type |-> "control_response",
     response |->
       [subtype |-> "success",
        request_id |-> response.request_id,
        response |->
          IF response.behavior = "allow"
          THEN [behavior |-> "allow",
                updatedInput |-> request.input,
                toolUseID |-> request.tool_use_id]
          ELSE [behavior |-> "deny",
                message |-> IF Falsy(response.message)
                            THEN "User denied this action" ELSE response.message]]]

\* the control_response object respondToApproval builds
ControlResponse(response, request) ==
    [type |-> "control_response",
     response |->
       [subtype |-> "success",
        request_id |-> response.request_id,
        response |->
          IF response.behavior = "allow"
          THEN [behavior |-> "allow",
                updatedInput |-> IF Falsy(response.updated_input)
                                 THEN request.input ELSE response.updated_input,
                toolUseID |-> request.tool_use_id]
          ELSE [behavior |-> "deny",
                message |-> IF Falsy(response.message)
                            THEN "User denied this action" ELSE response.message]]]

\* JSON.stringify(controlResponse): undefined can only occur in the payload
ResponseStr(controlResponse) ==
    [controlResponse EXCEPT !.response.response = JsonStringify(@)]

respondToApproval(w, chatId, response) ==
    IF ~ChatsHas(w, chatId) THEN Return(w, FALSE)
    ELSE
    LET m == w.managed[chatId] IN
    IF ~MapHas(m.pendingApprovals, response.request_id) THEN Return(w, FALSE)
    ELSE IF m.currentProcess = NoProcess THEN Return(w, FALSE)
    ELSE
    LET request == MapGet(m.pendingApprovals, response.request_id)
        responseStr == ResponseStr(ControlResponse(response, request))
        w1 == StdinWrite(w, m.currentProcess, responseStr)
        w2 == [w1 EXCEPT !.managed[chatId].pendingApprovals = MapDelete(@, response.request_id),
                         !.managed[chatId].processState = "processing"]
        w3 == Emit(w2, StatusEvent(chatId, "running", "processing", Undefined))
        w4 == Emit(w3, TranscriptEntry(chatId, "log_event",
                   [type |-> "log_event", event_type |-> "approval_response",
                    message |-> (IF response.behavior = "allow" THEN "OK " ELSE "NO ")
                                \o request.tool_name \o ": " \o response.behavior]))
    IN  Return(w4, TRUE)

RespondToApproval(chatId, response) ==
    /\ NoPendingError
    /\ Commit(respondToApproval(World, chatId, response))

ApprovalResponses ==
    [request_id : RequestIds, behavior : {"allow", "deny"},
     updated_input : UpdatedInputs, message : DenyMessages]

\* -------------------------------------------------------- setAutoApprove
\* for (const [requestId] of managed.pendingApprovals) respondToApproval(...)
RECURSIVE ApproveAll(_, _, _)
ApproveAll(w, chatId, requestIds) ==
    IF requestIds = <<>> THEN w
    ELSE ApproveAll(respondToApproval(w, chatId,
                        [request_id |-> Head(requestIds), behavior |-> "allow",
                         updated_input |-> Undefined, message |-> Undefined]),
                    chatId, Tail(requestIds))

setAutoApprove(w, chatId, enabled) ==
    IF ~ChatsHas(w, chatId) THEN Return(w, FALSE)
    ELSE
    LET w0 == [w EXCEPT !.managed[chatId].autoApprove = enabled]
        pending == w0.managed[chatId].pendingApprovals
        w1 == IF enabled /\ Len(pending) > 0
              THEN ApproveAll(w0, chatId, [i \in DOMAIN pending |-> pending[i].request_id])
              ELSE w0
    IN  Return(w1, TRUE)

SetAutoApprove(chatId, enabled) ==
    /\ NoPendingError
    /\ Commit(setAutoApprove(World, chatId, enabled))

\* ------------------------------------------------- handleControlRequest
handleControlRequest(w, msg, chatId) ==
    IF msg.request.subtype # "can_use_tool" THEN w
    ELSE
    LET request == [request_id |-> msg.request_id,
                    chat_id |-> chatId,
                    tool_name |-> msg.request.tool_name,
                    tool_use_id |-> msg.request.tool_use_id,
                    input |-> msg.request.input,
                    suggestions |-> msg.request.permission_suggestions]
        m == w.managed[chatId]
    IN  IF m.autoApprove
        THEN LET w1 == [w EXCEPT !.managed[chatId].pendingApprovals =
                                     MapSet(@, msg.request_id, request)]
                 w2 == respondToApproval(w1, chatId,
                           [request_id |-> msg.request_id, behavior |-> "allow",
                            updated_input |-> Undefined, message |-> Undefined])
             IN  Emit(w2, TranscriptEntry(chatId, "log_event",
                     [type |-> "log_event", event_type |-> "auto_approval",
                      message |-> "AUTO-APPROVED: " \o request.tool_name]))
        ELSE LET w1 == [w EXCEPT !.managed[chatId].pendingApprovals =
                                     MapSet(@, msg.request_id, request),
                                 !.managed[chatId].processState = "awaiting_approval"]
                 w2 == Emit(w1, StatusEvent(chatId, "running", "awaiting_approval", Undefined))
                 w3 == Emit(w2, [event |-> "approval_request", chat_id |-> chatId,
                                 request |-> request])
             IN  Emit(w3, TranscriptEntry(chatId, "approval_prompt",
                     [type |-> "approval_prompt",
                      request_id |-> msg.request_id,
                      tool_name |-> request.tool_name,
                      tool_use_id |-> request.tool_use_id,
                      input |-> request.input,
                      input_preview |-> request.input]))

\* ----------------------------------------------------- handleStreamLine
HasContent(msg) == "message" \in DOMAIN msg /\ "content" \in DOMAIN msg.message

\* for (const block of msg.message.content): one entry per text or tool_use block
RECURSIVE AssistantBlocks(_, _, _)
RECURSIVE AssistantBlocks_LastFirst(_, _, _)
AssistantBlocks_LastFirst(w, blocks, chatId) ==
    IF blocks = <<>> THEN w
    ELSE LET block == Head(blocks)
             w0 == AssistantBlocks_LastFirst(w, Tail(blocks), chatId)
         IN  IF block.type = "text"
             THEN Emit(w0, TranscriptEntry(chatId, "assistant",
                      [type |-> "assistant", text |-> block.text]))
             ELSE IF block.type = "tool_use"
             THEN Emit(w0, TranscriptEntry(chatId, "tool_use",
                      [type |-> "tool_use", tool_name |-> block.name,
                       tool_id |-> block.id, input |-> block.input]))
             ELSE w0
AssistantBlocks(w, blocks, chatId) ==
    IF blocks = <<>> THEN w
    ELSE LET block == Head(blocks)
             w1 == IF block.type = "text"
                   THEN Emit(w, TranscriptEntry(chatId, "assistant",
                            [type |-> "assistant", text |-> block.text]))
                   ELSE IF block.type = "tool_use"
                   THEN Emit(w, TranscriptEntry(chatId, "tool_use",
                            [type |-> "tool_use", tool_name |-> block.name,
                             tool_id |-> block.id, input |-> block.input]))
                   ELSE w
         IN  AssistantBlocks(w1, Tail(blocks), chatId)

\* String(content.content || '').slice(0, 100); the outputs drawn here are
\* shorter than 100 characters
Preview(content) == IF Falsy(content) THEN "" ELSE content

UserBlocks(w, blocks, chatId) ==
    IF blocks # <<>> /\ blocks[1].type = "tool_result"
    THEN Emit(w, TranscriptEntry(chatId, "tool_result",
             [type |-> "tool_result",
              tool_id |-> IF Falsy(blocks[1].tool_use_id) THEN "" ELSE blocks[1].tool_use_id,
              output |-> Preview(blocks[1].content),
              is_error |-> blocks[1].is_error]))
    ELSE w

\* if (msg.type === 'result'): the turn is complete
OnResult_KeepsFlag(w, chatId) ==
    Emit([w EXCEPT !.managed[chatId].processState = "idle"],
         StatusEvent(chatId, "ready", "idle", Undefined))
OnResult(w, chatId) ==
    Emit([w EXCEPT !.managed[chatId].isProcessing = FALSE,
                   !.managed[chatId].processState = "idle"],
         StatusEvent(chatId, "ready", "idle", Undefined))

\* the JSON text null: reading a property of it throws
JsonNull == [type |-> Undefined, subtype |-> Undefined, literal |-> "null"]

\* the body of the try block
TryStreamLine(w, line, chatId) ==
    IF ~line.json THEN Throw(w)                           \* JSON.parse throws
    ELSE
    LET msg == line.msg IN
    IF msg = JsonNull THEN Throw(w)                       \* msg.type throws
    ELSE IF msg.type = "system" /\ msg.subtype = "init" THEN w
    ELSE IF msg.type = "control_request" THEN handleControlRequest(w, msg, chatId)
    ELSE IF msg.type = "assistant" /\ HasContent(msg)
         THEN AssistantBlocks(w, msg.message.content, chatId)
    ELSE IF msg.type = "user" /\ HasContent(msg)
         THEN UserBlocks(w, msg.message.content, chatId)
    ELSE IF msg.type = "result" THEN OnResult(w, chatId)
    ELSE w

handleStreamLine(w, line, chatId) == Catch(TryStreamLine(w, line, chatId))

\* the lines a child may print
TextBlock == [type |-> "text", text |-> "some text"]
ToolUseBlock == [type |-> "tool_use", name |-> "Bash", id |-> "toolu-1", input |-> "input-A"]
TaskBlock == [type |-> "tool_use", name |-> "Task", id |-> "toolu-2", input |-> "input-A"]
ThinkingBlock == [type |-> "thinking", thinking |-> "hmm"]
ToolResultBlock == [type |-> "tool_result", tool_use_id |-> "toolu-1",
                    content |-> "file list", is_error |-> FALSE]

ControlRequest(r, t, u, i) ==
    [type |-> "control_request", request_id |-> r, subtype |-> Undefined,
     request |-> [subtype |-> "can_use_tool", tool_name |-> t, tool_use_id |-> u,
                  input |-> i, permission_suggestions |-> Undefined]]

ControlRequestLines ==
    {ControlRequest(r, t, u, i) :
        r \in RequestIds, t \in ToolNames, u \in ToolUseIds, i \in ToolInputs}

JsonMessages ==
    ControlRequestLines
    \cup {[type |-> "control_request", request_id |-> "req-x", subtype |-> Undefined,
           request |-> [subtype |-> "interrupt"]],
          [type |-> "system", subtype |-> "init"],
          [type |-> "stream_event", subtype |-> Undefined],
          [type |-> Undefined, subtype |-> Undefined],
          JsonNull,
          [type |-> "result", subtype |-> "success"],
          [type |-> "result", subtype |-> "error_during_execution"],
          [type |-> "assistant", subtype |-> Undefined,
           message |-> [content |-> <<TextBlock>>]],
          [type |-> "assistant", subtype |-> Undefined,
           message |-> [content |-> <<ThinkingBlock, TextBlock, ToolUseBlock>>]],
          [type |-> "assistant", subtype |-> Undefined,
           message |-> [content |-> <<TaskBlock, TextBlock>>]],
          [type |-> "user", subtype |-> Undefined,
           message |-> [content |-> <<ToolResultBlock>>]],
          [type |-> "user", subtype |-> Undefined,
           message |-> [content |-> <<TextBlock, ToolResultBlock>>]]}

StdoutLines ==
    {[json |-> FALSE, text |-> "Debugger attached."]}
    \cup {[json |-> TRUE, msg |-> msg] : msg \in JsonMessages}

Json(msg) == [json |-> TRUE, msg |-> msg]

\* the lines that drive the turn state machine
CoreLines ==
    {Json(ControlRequest(r, IF r = "req-1" THEN "Bash" ELSE "Task", "toolu-1", "input-A")) :
        r \in RequestIds}
    \cup {Json([type |-> "result", subtype |-> "success"]),
          Json([type |-> "assistant", subtype |-> Undefined,
                message |-> [content |-> <<TextBlock>>]])}

CoreResponses ==
    [request_id : RequestIds, behavior : {"allow", "deny"},
     updated_input : {Undefined}, message : {Undefined}]

\* rl.on('line', ...): a line of a running child whose readline interface is open
CanStdoutLine(pid) ==
    /\ NoPendingError
    /\ procs[pid].state = "running"
    /\ procs[pid].rlOpen

StdoutLine(pid, line) ==
    /\ CanStdoutLine(pid)
    /\ CommitLine(Return(handleStreamLine(World, line, procs[pid].chat), Undefined), pid, line)

\* -------------------------------------------------- process exit / error
\* managed.stdoutRL?.close()
CloseRL_Every(w, pid) ==
    [w EXCEPT !.procs = [p \in DOMAIN @ |-> [@[p] EXCEPT !.rlOpen = FALSE]]]
CloseRL(w, pid) ==
    IF pid = NoProcess THEN w ELSE [w EXCEPT !.procs[pid].rlOpen = FALSE]

\* proc.on('exit', ...); the child's stdout ends with it, which closes the
\* readline interface reading it
onExit(w, pid, code) ==
    LET chatId == w.procs[pid].chat
        w1 == [w EXCEPT !.procs[pid].state = "exited", !.procs[pid].exitCode = code,
                        !.procs[pid].rlOpen = FALSE]
        w2 == [w1 EXCEPT !.managed[chatId].isProcessing = FALSE,
                         !.managed[chatId].processState = "finished",
                         !.managed[chatId].currentProcess = NoProcess]
        w3 == CloseRL(w2, w.managed[chatId].stdoutRL)
    IN  Emit(w3, StatusEvent(chatId, "ready", "finished", Undefined))

CanExit(pid) ==
    /\ NoPendingError
    /\ procs[pid].state = "running"

ProcExit(pid, code) ==
    /\ CanExit(pid)
    /\ Commit(onExit(World, pid, code))

\* proc.on('error', ...): the spawn failed
onError_Unhandled(w, pid) == [w EXCEPT !.procs[pid].state = "errored"]
onError(w, pid) ==
    LET chatId == w.procs[pid].chat
        w1 == [w EXCEPT !.procs[pid].state = "errored", !.procs[pid].exitCode = "-2"]
        w2 == [w1 EXCEPT !.managed[chatId].isProcessing = FALSE,
                         !.managed[chatId].processState = "error",
                         !.managed[chatId].currentProcess = NoProcess]
    IN  Emit(w2, StatusEvent(chatId, "error", "error", "spawn ENOENT"))

ProcError(pid) ==
    /\ procs[pid].state = "spawn_failed"
    /\ Commit(onError(World, pid))

\* setTimeout(..., 1000): the delayed write of the user message. Every timer has
\* the same delay, so the timers fire in the order they were set.
onTimer(w, pid) ==
    StdinWrite([w EXCEPT !.procs[pid].timer = "fired"], pid, w.procs[pid].userMsg)

TimerFires(pid) ==
    /\ NoPendingError
    /\ procs[pid].timer = "pending"
    /\ \A q \in 1..(pid - 1) : procs[q].timer # "pending"
    /\ Commit(onTimer(World, pid))

\* -------------------------------------------------------------- stopChat
\* currentProcess.kill('SIGTERM'): the signal is sent and the handle marked killed
Kill(w, pid) == [w EXCEPT !.procs[pid].killed = TRUE, !.signals = Append(@, pid)]

\* managed.currentProcess && !managed.currentProcess.killed
ShouldKill_Always(w, cur) == cur # NoProcess
ShouldKill(w, cur) == cur # NoProcess /\ ~w.procs[cur].killed

stopChat(w, chatId) ==
    IF ~ChatsHas(w, chatId) THEN Return(w, FALSE)
    ELSE
    LET m == w.managed[chatId]
        cur == m.currentProcess
        w1 == IF ShouldKill(w, cur) THEN Kill(w, cur) ELSE w
        w2 == CloseRL(w1, m.stdoutRL)
        w3 == [w2 EXCEPT !.managed[chatId].chat.status = "stopped"]
    IN  Return(Emit(w3, StatusEvent(chatId, "stopped", Undefined, Undefined)), TRUE)

StopChat(chatId) ==
    /\ NoPendingError
    /\ Commit(stopChat(World, chatId))

\* --------------------------------------------------------------- cleanup
\* managed.chat.status === 'stopped' || managed.chat.status === 'error'
ShouldClean_Finished(m) ==
    m.chat.status \in {"stopped", "error"} \/ m.processState = "finished"
ShouldClean(m) == m.chat.status \in {"stopped", "error"}

cleanup(w) ==
    LET gone == {id \in w.chats : ShouldClean(w.managed[id])}
        rls == {w.managed[id].stdoutRL : id \in gone}
    IN  Return([w EXCEPT !.chats = @ \ gone,
                         !.procs = [p \in DOMAIN @ |->
                                      IF p \in rls THEN [@[p] EXCEPT !.rlOpen = FALSE]
                                      ELSE @[p]]],
               Cardinality(gone))

Cleanup ==
    /\ NoPendingError
    /\ Commit(cleanup(World))

\* ------------------------------------------------------------------ Next
\* One chat and its turns: every command and every child event, with the
\* inputs that drive the state machine.
Next ==
    \/ managed = <<>> /\ CreateChat(Undefined, Undefined, "assisted")
    \/ \E c \in ChatIds, ok \in BOOLEAN : SendMessage(c, "hello", <<>>, ok)
    \/ \E c \in ChatIds, r \in CoreResponses : RespondToApproval(c, r)
    \/ \E c \in ChatIds, en \in BOOLEAN : SetAutoApprove(c, en)
    \/ \E c \in ChatIds : StopChat(c)
    \/ Cleanup
    \/ \E p \in DOMAIN procs, line \in CoreLines : StdoutLine(p, line)
    \/ \E p \in DOMAIN procs : ProcExit(p, "0")
    \/ \E p \in DOMAIN procs : ProcError(p)
    \/ \E p \in DOMAIN procs : TimerFires(p)

Spec == Init /\ [][Next]_vars

\* The approval protocol over the turns of one chat: everything that reads or
\* writes pendingApprovals, processState or currentProcess. The delayed write
\* of the user message and the registry sweep touch none of them.
NextApproval ==
    \/ managed = <<>> /\ CreateChat(Undefined, Undefined, "assisted")
    \/ \E c \in ChatIds, ok \in BOOLEAN : SendMessage(c, "hello", <<>>, ok)
    \/ \E c \in ChatIds, r \in CoreResponses : RespondToApproval(c, r)
    \/ \E c \in ChatIds, en \in BOOLEAN : SetAutoApprove(c, en)
    \/ \E c \in ChatIds : StopChat(c)
    \/ \E p \in DOMAIN procs, line \in CoreLines : StdoutLine(p, line)
    \/ \E p \in DOMAIN procs : ProcExit(p, "0")
    \/ \E p \in DOMAIN procs : ProcError(p)

SpecApproval == Init /\ [][NextApproval]_vars

\* One turn of one chat with every shape of approval request and of approval
\* response: the codec.
NextCodec ==
    \/ \E sp \in SystemPrompts, ex \in ExistingSessionIds, pm \in PermissionModes :
          managed = <<>> /\ CreateChat(sp, ex, pm)
    \/ \E c \in ChatIds, msg \in Messages, att \in AttachmentLists :
          procs = <<>> /\ SendMessage(c, msg, att, TRUE)
    \/ \E c \in ChatIds, r \in ApprovalResponses : RespondToApproval(c, r)
    \/ \E c \in ChatIds, en \in BOOLEAN : SetAutoApprove(c, en)
    \/ \E p \in DOMAIN procs, line \in StdoutLines : StdoutLine(p, line)
    \/ \E p \in DOMAIN procs, code \in ExitCodes : ProcExit(p, code)
    \/ \E p \in DOMAIN procs : TimerFires(p)

SpecCodec == Init /\ [][NextCodec]_vars

\* The turns of one chat created in every way: spawn, completion, exit with
\* every exit code, spawn failure, stop, and the delayed user message.
ResultLine == Json([type |-> "result", subtype |-> "success"])

NextTurns ==
    \/ \E sp \in SystemPrompts, ex \in ExistingSessionIds, pm \in PermissionModes :
          managed = <<>> /\ CreateChat(sp, ex, pm)
    \/ \E c \in ChatIds, ok \in BOOLEAN : SendMessage(c, "hello", <<>>, ok)
    \/ \E c \in ChatIds : StopChat(c)
    \/ \E p \in DOMAIN procs : StdoutLine(p, ResultLine)
    \/ \E p \in DOMAIN procs, code \in ExitCodes : ProcExit(p, code)
    \/ \E p \in DOMAIN procs : ProcError(p)
    \/ \E p \in DOMAIN procs : TimerFires(p)

SpecTurns == Init /\ [][NextTurns]_vars

\* Stopping one chat at any point of its turns: before the delayed user
\* message, while processing, with approvals pending, after completion and
\* after the exit.
NextStop ==
    \/ managed = <<>> /\ CreateChat(Undefined, Undefined, "assisted")
    \/ \E c \in ChatIds : SendMessage(c, "hello", <<>>, TRUE)
    \/ \E c \in ChatIds : StopChat(c)
    \/ \E p \in DOMAIN procs, line \in CoreLines : StdoutLine(p, line)
    \/ \E p \in DOMAIN procs : ProcExit(p, "null")
    \/ \E p \in DOMAIN procs : TimerFires(p)

SpecStop == Init /\ [][NextStop]_vars

\* The registry with several chats: creation, commands addressed by chat id
\* (also ids that were never created or that cleanup removed), completion and
\* exit of the children, and the sweep. The approval protocol of a single
\* chat is followed in SpecApproval.
NextRegistry ==
    \/ CreateChat(Undefined, Undefined, "assisted")
    \/ \E c \in RegistryIds : SendMessage(c, "hello", <<>>, TRUE)
    \/ \E c \in RegistryIds : StopChat(c)
    \/ Cleanup
    \/ \E p \in DOMAIN procs : StdoutLine(p, ResultLine)
    \/ \E p \in DOMAIN procs : ProcExit(p, "0")

SpecRegistry == Init /\ [][NextRegistry]_vars

\* ================================================================ claims
\* Each claim about what a handler does is stated over the handler applied to
\* the current state: World is the state on entry, and the handler's result
\* holds the objects on return, the events emitted, the stdin writes and the
\* return value.

Pending(c) == managed[c].pendingApprovals

\* the children of chat c that have been spawned and have not exited
Live(c) == {p \in DOMAIN procs : procs[p].chat = c /\ procs[p].state = "running"}

Events(es, kind) == SelectSeq(es, LAMBDA e : e.event = kind)

Entries(es, type) ==
    SelectSeq(es, LAMBDA e : e.event = "transcript_entry" /\ e.type = type)

LogEntries(es, eventType) ==
    SelectSeq(Entries(es, "log_event"), LAMBDA e : e.content.event_type = eventType)

\* is line a can_use_tool control_request
IsCanUseTool(line) ==
    /\ line.json
    /\ line.msg.type = "control_request"
    /\ line.msg.request.subtype = "can_use_tool"

\* C1: every chat has at most one child process that was spawned and has not
\* yet exited.
C1_AtMostOneLiveProcess ==
    \A c \in DOMAIN managed : Cardinality(Live(c)) <= 1

\* C2: a sendMessage is accepted (returns true and spawns a process) only when
\* the chat's turn state is idle, finished or error; in processing or
\* awaiting_approval it is rejected.
C2_AcceptedOnlyOutsideATurn ==
    NoPendingError =>
        \A c \in chats :
            sendMessage(World, c, "hello", <<>>, TRUE).ret = TRUE
                => managed[c].processState \in {"idle", "finished", "error"}

\* C3: a request id stays in pendingApprovals only while the process that
\* asked is alive: it is removed by its one answer or by that process's death,
\* so none is left without a terminal event.
C3_PendingHasLiveOrigin ==
    \A c \in DOMAIN managed : \A r \in RequestIds :
        MapHas(Pending(c), r) => procs[origin[c][r]].state = "running"

\* C4: processState is awaiting_approval exactly when pendingApprovals is
\* non-empty and the chat's child process is alive.
C4_AwaitingIffPendingAndAlive ==
    \A c \in DOMAIN managed :
        (managed[c].processState = "awaiting_approval")
            <=> (Pending(c) # <<>> /\ Live(c) # {})

\* C5: when the child exits while the turn is processing or awaiting_approval
\* with approvals outstanding, all of them are removed, the turn state becomes
\* error and exactly one chat_status event reports the failure.
C5_ExitInvalidatesPending ==
    \A p \in DOMAIN procs :
        LET c == procs[p].chat
            w == onExit(World, p, "1")
            status == Events(w.emitted, "chat_status")
        IN  (/\ CanExit(p)
             /\ managed[c].processState \in {"processing", "awaiting_approval"}
             /\ Pending(c) # <<>>)
            => /\ w.managed[c].pendingApprovals = <<>>
               /\ w.managed[c].processState = "error"
               /\ Len(status) = 1
               /\ status[1].process_state = "error"

\* C6: respondToApproval returns false, writes nothing, emits nothing and
\* changes nothing when the request id is not pending or the process that
\* asked has exited, also after a later sendMessage has spawned a new process.
C6_StaleApprovalRejected ==
    NoPendingError =>
        \A c \in chats : \A r \in CoreResponses :
            LET w == respondToApproval(World, c, r) IN
            (\/ ~MapHas(Pending(c), r.request_id)
             \/ procs[origin[c][r.request_id]].state # "running")
            => /\ w.ret = FALSE
               /\ w.written = <<>>
               /\ w.emitted = <<>>
               /\ w.managed = managed

\* C7: a successful respondToApproval writes exactly one control_response for
\* its request id to the stdin of the chat's live process, removes exactly
\* that id from pendingApprovals and leaves every other pending request as it
\* was, sets processState to processing, and emits one approval_response log
\* entry.
C7_RespondEffects ==
    NoPendingError =>
        \A c \in chats : \A r \in CoreResponses :
            LET w == respondToApproval(World, c, r)
                cur == managed[c].currentProcess
                after == w.managed[c].pendingApprovals
                logs == Entries(w.emitted, "log_event")
            IN  w.ret = TRUE
                => /\ Len(w.written) = 1
                   /\ w.written[1].pid = cur
                   /\ cur \in Live(c)
                   /\ ~w.written[1].destroyed
                   /\ w.written[1].line.type = "control_response"
                   /\ w.written[1].line.response.request_id = r.request_id
                   /\ MapKeys(after) = MapKeys(Pending(c)) \ {r.request_id}
                   /\ Len(after) = Len(Pending(c)) - 1
                   /\ \A q \in MapKeys(after) : MapGet(after, q) = MapGet(Pending(c), q)
                   /\ w.managed[c].processState = "processing"
                   /\ Len(logs) = 1
                   /\ logs[1].content.event_type = "approval_response"
                   /\ logs[1].chat_id = c

\* the later of two pending requests is answered; the earlier one stays
C7_Witness ==
    /\ NoPendingError
    /\ \E c \in chats : \E r \in CoreResponses :
        LET w == respondToApproval(World, c, r) IN
        /\ Len(Pending(c)) = 2
        /\ Pending(c)[2].request_id = r.request_id
        /\ w.ret = TRUE
        /\ Len(w.written) = 1
        /\ w.managed[c].pendingApprovals = <<Pending(c)[1]>>

\* C8: the control_response respondToApproval writes is
\* {type: control_response, response: {subtype: success, request_id,
\* response: payload}}; for allow the payload is {behavior: allow,
\* updatedInput: the approver's input if given, else the request's,
\* toolUseID: the request's tool_use_id}; for deny it is {behavior: deny,
\* message: the given message or 'User denied this action'} and nothing else.
C8_ControlResponseShape ==
    NoPendingError =>
        \A c \in chats : \A r \in ApprovalResponses :
            LET w == respondToApproval(World, c, r) IN
            w.ret = TRUE
            => LET q == MapGet(Pending(c), r.request_id)
                   line == w.written[1].line
                   payload == line.response.response
               IN  /\ DOMAIN line = {"type", "response"}
                   /\ line.type = "control_response"
                   /\ DOMAIN line.response = {"subtype", "request_id", "response"}
                   /\ line.response.subtype = "success"
                   /\ line.response.request_id = q.request_id
                   /\ r.behavior = "allow" =>
                         /\ payload.behavior = "allow"
                         /\ payload.updatedInput =
                              IF r.updated_input # Undefined THEN r.updated_input ELSE q.input
                         /\ IF q.tool_use_id # Undefined
                            THEN /\ DOMAIN payload = {"behavior", "updatedInput", "toolUseID"}
                                 /\ payload.toolUseID = q.tool_use_id
                            ELSE DOMAIN payload = {"behavior", "updatedInput"}
                   /\ r.behavior = "deny" =>
                         /\ DOMAIN payload = {"behavior", "message"}
                         /\ payload.behavior = "deny"
                         /\ payload.message =
                              IF r.message \in {Undefined, ""}
                              THEN "User denied this action" ELSE r.message

\* an allow with the approver's edited input answers a request that names its
\* tool use
C8_Witness ==
    /\ NoPendingError
    /\ \E c \in chats : \E r \in ApprovalResponses :
        LET w == respondToApproval(World, c, r) IN
        /\ r.behavior = "allow"
        /\ r.updated_input = "input-B"
        /\ w.ret = TRUE
        /\ MapGet(Pending(c), r.request_id).tool_use_id = "toolu-1"
        /\ w.written[1].line.response.response.updatedInput = "input-B"

\* C9: a can_use_tool control_request parsed while autoApprove is off is
\* stored in pendingApprovals under its request_id, sets processState to
\* awaiting_approval, and emits exactly one approval_request notification and
\* exactly one approval_prompt transcript entry, both carrying the request id
\* and the tool name.
C9_ApprovalRequestSurfaced ==
    \A p \in DOMAIN procs : \A line \in CoreLines :
        LET c == procs[p].chat
            w == handleStreamLine(World, line, c)
            rid == line.msg.request_id
            tool == line.msg.request.tool_name
            notes == Events(w.emitted, "approval_request")
            prompts == Entries(w.emitted, "approval_prompt")
        IN  (CanStdoutLine(p) /\ IsCanUseTool(line) /\ ~managed[c].autoApprove)
            => /\ MapHas(w.managed[c].pendingApprovals, rid)
               /\ MapGet(w.managed[c].pendingApprovals, rid).tool_name = tool
               /\ w.managed[c].processState = "awaiting_approval"
               /\ Len(notes) = 1
               /\ notes[1].chat_id = c
               /\ notes[1].request.request_id = rid
               /\ notes[1].request.tool_name = tool
               /\ Len(prompts) = 1
               /\ prompts[1].chat_id = c
               /\ prompts[1].content.request_id = rid
               /\ prompts[1].content.tool_name = tool

\* a second request arrives while another one is pending
C9_Witness ==
    \E p \in DOMAIN procs : \E line \in CoreLines :
        LET c == procs[p].chat
            w == handleStreamLine(World, line, c)
        IN  /\ CanStdoutLine(p)
            /\ IsCanUseTool(line)
            /\ ~managed[c].autoApprove
            /\ Len(Pending(c)) = 1
            /\ Len(w.managed[c].pendingApprovals) = 2
            /\ w.managed[c].pendingApprovals[2].request_id = line.msg.request_id
            /\ Len(Events(w.emitted, "approval_request")) = 1

\* C10: a can_use_tool control_request parsed while autoApprove is on gets an
\* allow control_response for its request id written to the stdin of the child
\* that asked, with no approval_request notification, the id not left in
\* pendingApprovals, and one auto_approval log entry.
C10_AutoApproveAnswersTheChild ==
    \A p \in DOMAIN procs : \A line \in CoreLines :
        LET c == procs[p].chat
            w == handleStreamLine(World, line, c)
            rid == line.msg.request_id
        IN  (CanStdoutLine(p) /\ IsCanUseTool(line) /\ managed[c].autoApprove)
            => /\ Len(w.written) = 1
               /\ w.written[1].pid = p
               /\ w.written[1].line.type = "control_response"
               /\ w.written[1].line.response.request_id = rid
               /\ w.written[1].line.response.response.behavior = "allow"
               /\ Events(w.emitted, "approval_request") = <<>>
               /\ ~MapHas(w.managed[c].pendingApprovals, rid)
               /\ Len(LogEntries(w.emitted, "auto_approval")) = 1

\* C11: setAutoApprove(chatId, true) on a chat with N pending approvals
\* resolves all N as allow: pendingApprovals is empty when the call returns,
\* one allow control_response has been written per request, and one
\* approval_response log entry has been emitted per request.
C11_EnableResolvesAll ==
    NoPendingError =>
        \A c \in chats :
            LET w == setAutoApprove(World, c, TRUE)
                N == Len(Pending(c))
            IN  /\ w.ret = TRUE
                /\ w.managed[c].pendingApprovals = <<>>
                /\ Len(w.written) = N
                /\ \A i \in 1..N :
                      /\ w.written[i].line.type = "control_response"
                      /\ w.written[i].line.response.request_id = Pending(c)[i].request_id
                      /\ w.written[i].line.response.response.behavior = "allow"
                /\ Len(LogEntries(w.emitted, "approval_response")) = N

\* C12: a sendMessage rejected because a turn is in flight changes nothing: no
\* process is spawned, messageCount, processState, pendingApprovals and the
\* current process handle are as before, nothing is written to a stdin and no
\* event is emitted.
C12_RejectedSendIsPure ==
    NoPendingError =>
        \A c \in chats : \A ok \in BOOLEAN :
            LET w == sendMessage(World, c, "hello", <<>>, ok) IN
            w.ret = FALSE
            => /\ w.procs = procs
               /\ w.managed = managed
               /\ w.chats = chats
               /\ w.written = <<>>
               /\ w.emitted = <<>>

\* a message is rejected while the turn's process is running with an approval
\* pending
C12_Witness ==
    /\ NoPendingError
    /\ \E c \in chats :
        /\ sendMessage(World, c, "hello", <<>>, TRUE).ret = FALSE
        /\ managed[c].isProcessing
        /\ managed[c].currentProcess \in Live(c)
        /\ managed[c].processState = "awaiting_approval"
        /\ Pending(c) # <<>>

\* does args hold flag followed by value
HasPair(args, flag, value) ==
    \E i \in 1..(Len(args) - 1) : args[i] = flag /\ args[i + 1] = value

HasFlag(args, flag) == \E i \in DOMAIN args : args[i] = flag

\* C13: every spawn by sendMessage passes --session-id with the chat's
\* conversation id exactly when messageCount before the spawn is 0 and
\* --resume with the same id exactly when it is greater than 0; a chat created
\* with an existing conversation id resumes on its first spawn; and every
\* process of the chat was spawned with the one conversation id the chat has.
C13_NewThenResume ==
    /\ NoPendingError =>
         \A c \in chats : \A ok \in BOOLEAN :
            LET w == sendMessage(World, c, "hello", <<>>, ok)
                args == w.procs[Len(w.procs)].args
                sid == managed[c].sessionId
                n == managed[c].messageCount
            IN  w.ret = TRUE
                => /\ HasPair(args, "--session-id", sid) <=> n = 0
                   /\ HasFlag(args, "--session-id") <=> n = 0
                   /\ HasPair(args, "--resume", sid) <=> n > 0
                   /\ HasFlag(args, "--resume") <=> n > 0
                   /\ w.managed[c].sessionId = sid
                   /\ w.managed[c].chat.session_id = sid
    /\ \A p \in DOMAIN procs :
         LET c == procs[p].chat
             sid == managed[c].sessionId
             first == \A q \in 1..(p - 1) : procs[q].chat # c
             fresh == sid \notin ExistingSessionIds
         IN  /\ managed[c].chat.session_id = sid
             /\ IF first /\ fresh
                THEN HasPair(procs[p].args, "--session-id", sid)
                     /\ ~HasFlag(procs[p].args, "--resume")
                ELSE HasPair(procs[p].args, "--resume", sid)
                     /\ ~HasFlag(procs[p].args, "--session-id")

\* a fresh chat has spawned twice, and a third message is about to resume
C13_Witness ==
    /\ NoPendingError
    /\ Len(procs) = 2
    /\ HasFlag(procs[1].args, "--session-id")
    /\ HasFlag(procs[2].args, "--resume")
    /\ \E c \in chats : sendMessage(World, c, "hello", <<>>, TRUE).ret = TRUE

\* C14: an exit is abnormal exactly when no result line was parsed before it,
\* whatever the exit code: an exit while the turn is processing or
\* awaiting_approval sets the turn state to error and emits a chat_status event
\* reporting the error; an exit after the result line reports no error.
C14_ExitWithoutResultIsError ==
    \A p \in DOMAIN procs : \A code \in ExitCodes :
        LET c == procs[p].chat
            w == onExit(World, p, code)
            status == Events(w.emitted, "chat_status")
            errors == SelectSeq(status, LAMBDA e : e.process_state = "error" \/ e.status = "error")
        IN  CanExit(p)
            => IF managed[c].processState \in {"processing", "awaiting_approval"}
               THEN /\ w.managed[c].processState = "error"
                    /\ errors # <<>>
               ELSE /\ w.managed[c].processState # "error"
                    /\ errors = <<>>

\* C15: stopChat succeeds in every state of a registered chat: it sets the
\* chat's status to stopped whether or not a process exists, sends SIGTERM
\* exactly when the current process exists and has not been killed yet, and a
\* second stopChat sends no signal and leaves the state as the first left it.
C15_StopIdempotent ==
    NoPendingError =>
        \A c \in chats :
            LET cur == managed[c].currentProcess
                w1 == stopChat(World, c)
                w2 == stopChat(Entry(w1), c)
            IN  /\ w1.ret = TRUE
                /\ w1.managed[c].chat.status = "stopped"
                /\ w1.signals = IF cur # NoProcess /\ ~procs[cur].killed
                                THEN <<cur>> ELSE <<>>
                /\ w2.ret = TRUE
                /\ w2.signals = <<>>
                /\ w2.chats = w1.chats
                /\ w2.managed = w1.managed
                /\ w2.procs = w1.procs

\* the chat is stopped with an approval pending and the user message of its
\* live process not yet written
C15_Witness ==
    /\ NoPendingError
    /\ \E c \in chats :
        LET cur == managed[c].currentProcess IN
        /\ cur \in Live(c)
        /\ ~procs[cur].killed
        /\ procs[cur].timer = "pending"
        /\ managed[c].processState = "awaiting_approval"
        /\ Pending(c) # <<>>
        /\ stopChat(World, c).signals = <<cur>>

\* C16: cleanup() removes from the registry exactly the chats whose status is
\* stopped or error, returns how many it removed, and leaves every other chat
\* registered with its state and its processes untouched, also a chat whose
\* turn state is finished.
C16_CleanupRemovesStopped ==
    NoPendingError =>
        LET w == cleanup(World)
            gone == {c \in chats : managed[c].chat.status \in {"stopped", "error"}}
        IN  /\ w.chats = chats \ gone
            /\ w.ret = Cardinality(gone)
            /\ \A c \in chats \ gone : w.managed[c] = managed[c]
            /\ \A p \in DOMAIN procs : procs[p].chat \notin gone => w.procs[p] = procs[p]
            /\ w.emitted = <<>>
            /\ w.written = <<>>
            /\ w.signals = <<>>

\* one chat is stopped, another is running with its turn finished
C16_Witness ==
    /\ NoPendingError
    /\ \E c, d \in chats :
        /\ managed[c].chat.status = "stopped"
        /\ managed[d].chat.status = "running"
        /\ managed[d].processState = "finished"
        /\ cleanup(World).ret = 1
        /\ cleanup(World).chats = chats \ {c}

\* has handler result w left the registry, every chat and every process as
\* they are, with nothing emitted, written or signalled
NothingDone(w) ==
    /\ w.chats = chats
    /\ w.managed = managed
    /\ w.procs = procs
    /\ w.emitted = <<>>
    /\ w.written = <<>>
    /\ w.signals = <<>>

\* C17: sendMessage, respondToApproval, stopChat and setAutoApprove called
\* with a chat id that is not in the registry (never created, or removed by
\* cleanup) return false, spawn and write nothing, emit no event and leave
\* every chat as it is.
C17_UnknownChatRejected ==
    NoPendingError =>
        \A c \in RegistryIds \ chats :
            /\ \A ok \in BOOLEAN :
                 LET w == sendMessage(World, c, "hello", <<>>, ok)
                 IN  w.ret = FALSE /\ NothingDone(w)
            /\ \A r \in CoreResponses :
                 LET w == respondToApproval(World, c, r)
                 IN  w.ret = FALSE /\ NothingDone(w)
            /\ LET w == stopChat(World, c)
               IN  w.ret = FALSE /\ NothingDone(w)
            /\ \A en \in BOOLEAN :
                 LET w == setAutoApprove(World, c, en)
                 IN  w.ret = FALSE /\ NothingDone(w)

\* one chat is registered with a live process, one was removed by cleanup
\* while its process is still running, and one id was never created
C17_Witness ==
    /\ NoPendingError
    /\ \E c \in chats : Live(c) # {}
    /\ \E d \in DOMAIN managed \ chats :
          /\ Live(d) # {}
          /\ stopChat(World, d).ret = FALSE
    /\ \E e \in RegistryIds \ DOMAIN managed :
          sendMessage(World, e, "hello", <<>>, TRUE).ret = FALSE

\* C18: createChat succeeds in every state and with every argument: it
\* registers a chat under a new id with status running, turn state idle, no
\* pending approval and autoApprove off, spawns no process and leaves the other
\* chats alone; and a chat has a process only after a sendMessage on it was
\* accepted.
C18_CreateRegistersIdleChat ==
    /\ NoPendingError =>
         \A sp \in SystemPrompts : \A ex \in ExistingSessionIds : \A pm \in PermissionModes :
            LET id == NextChatId
                w == createChat(World, id, sp, ex, pm)
                m == w.managed[id]
            IN  /\ w.ret = id
                /\ id \notin chats
                /\ w.chats = chats \cup {id}
                /\ m.chat.status = "running"
                /\ m.processState = "idle"
                /\ ~m.isProcessing
                /\ m.pendingApprovals = <<>>
                /\ ~m.autoApprove
                /\ m.currentProcess = NoProcess
                /\ w.procs = procs
                /\ \A c \in DOMAIN managed : w.managed[c] = managed[c]
                /\ w.written = <<>>
                /\ w.signals = <<>>
    /\ \A c \in DOMAIN managed :
         LET created == IF managed[c].sessionId \in ExistingSessionIds THEN 1 ELSE 0
         IN  managed[c].messageCount = created
             => /\ \A p \in DOMAIN procs : procs[p].chat # c
                /\ managed[c].currentProcess = NoProcess

\* a chat resuming an existing conversation has just been created
C18_Witness ==
    /\ NoPendingError
    /\ \E c \in chats :
        /\ managed[c].sessionId = "sess-old"
        /\ managed[c].messageCount = 1
        /\ managed[c].processState = "idle"
        /\ managed[c].chat.status = "running"
        /\ procs = <<>>

\* the lines that carry content blocks, and two that carry none
ContentLines ==
    {l \in StdoutLines : ~l.json \/ l.msg.type \in {"assistant", "user", "result"}}

\* what a content block is shown as: the entry type and the block's text or id
Shown(block) ==
    IF block.type = "text" THEN <<"assistant", block.text>>
    ELSE IF block.type = "tool_use" THEN <<"tool_use", block.id>>
    ELSE <<"tool_result", block.tool_use_id>>

\* the content entries a line is to produce, in block order
Expected(line) ==
    IF ~line.json THEN <<>>
    ELSE IF line.msg.type = "assistant"
    THEN LET shown == SelectSeq(line.msg.message.content,
                                LAMBDA b : b.type \in {"text", "tool_use"})
         IN  [i \in DOMAIN shown |-> Shown(shown[i])]
    ELSE IF line.msg.type = "user" /\ line.msg.message.content[1].type = "tool_result"
    THEN <<Shown(line.msg.message.content[1])>>
    ELSE <<>>

\* the content entries among the events es, in emission order
Observed(es) ==
    LET shown == SelectSeq(es, LAMBDA e : /\ e.event = "transcript_entry"
                                          /\ e.type \in {"assistant", "tool_use", "tool_result"})
    IN  [i \in DOMAIN shown |->
            <<shown[i].type,
              IF shown[i].type = "assistant" THEN shown[i].content.text
              ELSE shown[i].content.tool_id>>]

\* C19: the transcript entries of two stdout lines handled one after the other
\* are the entries of the first line's blocks in block order followed by the
\* entries of the second line's blocks in block order.
C19_EntriesInLineAndBlockOrder ==
    \A p \in DOMAIN procs : \A l1 \in ContentLines : \A l2 \in ContentLines :
        LET c == procs[p].chat
            w1 == handleStreamLine(World, l1, c)
            w2 == handleStreamLine(w1, l2, c)
        IN  CanStdoutLine(p)
            => /\ Observed(w1.emitted) = Expected(l1)
               /\ Observed(w2.emitted) = Expected(l1) \o Expected(l2)

\* a line with a thinking, a text and a tool_use block is followed by a line
\* with a tool_use block before a text block: four entries in all
C19_Witness ==
    \E p \in DOMAIN procs : \E l1 \in ContentLines : \E l2 \in ContentLines :
        LET c == procs[p].chat
            w2 == handleStreamLine(handleStreamLine(World, l1, c), l2, c)
        IN  /\ CanStdoutLine(p)
            /\ Len(Expected(l1)) = 2
            /\ Len(Expected(l2)) = 2
            /\ Expected(l1)[1][1] = "assistant"
            /\ Expected(l2)[1][1] = "tool_use"
            /\ Len(Observed(w2.emitted)) = 4
            /\ Observed(w2.emitted)[3][1] = "tool_use"

\* the lines the handler has nothing to do with: not JSON, JSON of no known
\* type, and control requests of another subtype than can_use_tool
UnknownLines ==
    {l \in StdoutLines :
        \/ ~l.json
        \/ l.msg.type \notin {"system", "control_request", "assistant", "user", "result"}
        \/ l.msg.type = "control_request" /\ l.msg.request.subtype # "can_use_tool"}

\* C20: handling a stdout line that is not JSON, is JSON with an unrecognized
\* type, or is a control_request whose subtype is not can_use_tool throws
\* nothing out of the line handler, leaves the chat (processState,
\* isProcessing, pendingApprovals and the rest) unchanged and emits no event.
C20_UnknownLinesIgnored ==
    \A p \in DOMAIN procs : \A line \in UnknownLines :
        LET w == handleStreamLine(World, line, procs[p].chat) IN
        CanStdoutLine(p)
        => /\ ~w.thrown
           /\ w.managed = managed
           /\ w.procs = procs
           /\ w.emitted = <<>>
           /\ w.written = <<>>

\* garbage arrives while the chat awaits an approval
C20_Witness ==
    \E p \in DOMAIN procs : \E line \in UnknownLines :
        LET c == procs[p].chat
            w == handleStreamLine(World, line, c)
        IN  /\ CanStdoutLine(p)
            /\ ~line.json
            /\ managed[c].processState = "awaiting_approval"
            /\ Pending(c) # <<>>
            /\ w.managed[c].processState = "awaiting_approval"
            /\ w.managed[c].pendingApprovals = Pending(c)
            /\ Cardinality(UnknownLines) >= 4

\* the lines that carry a message with content blocks
BlockLines ==
    {l \in StdoutLines : l.json /\ l.msg.type \in {"assistant", "user"} /\ HasContent(l.msg)}

\* the transcript entry type a content block is shown with
EntryType(block) ==
    IF block.type = "text" THEN "assistant" ELSE block.type

\* C21: a parsed assistant or user message carrying k content blocks yields
\* exactly k transcript entries, the i-th one made from the i-th block (a
\* tool_result block of a user message as a tool_result entry, never as a
\* user entry).
C21_OneEntryPerBlock ==
    \A p \in DOMAIN procs : \A line \in BlockLines :
        LET c == procs[p].chat
            w == handleStreamLine(World, line, c)
            blocks == line.msg.message.content
            entries == Events(w.emitted, "transcript_entry")
        IN  CanStdoutLine(p)
            => /\ Len(entries) = Len(blocks)
               /\ \A i \in DOMAIN blocks : entries[i].type = EntryType(blocks[i])
               /\ \A i \in DOMAIN entries : entries[i].type # "user"

\* C22: a tool_use block of a stdout line whose tool is Task is emitted as one
\* agent_spawn entry, not as a tool_use entry.
C22_TaskIsAgentSpawn ==
    \A p \in DOMAIN procs : \A line \in BlockLines :
        LET c == procs[p].chat
            w == handleStreamLine(World, line, c)
            blocks == line.msg.message.content
            tasks == SelectSeq(blocks, LAMBDA b : b.type = "tool_use" /\ b.name = "Task")
            generic == SelectSeq(Entries(w.emitted, "tool_use"),
                                 LAMBDA e : e.content.tool_name = "Task")
        IN  (CanStdoutLine(p) /\ line.msg.type = "assistant")
            => /\ Len(Entries(w.emitted, "agent_spawn")) = Len(tasks)
               /\ generic = <<>>

\* the happy path's inputs
BashRequestLine == Json(ControlRequest("req-1", "Bash", "toolu-1", "input-A"))

AllowReq1 == [request_id |-> "req-1", behavior |-> "allow",
              updated_input |-> Undefined, message |-> Undefined]

\* the second half of the happy path from handler state w: the approver
\* allows req-1, the child prints its result, the user sends again
HappyFromApproval(w, c) ==
    LET w3 == respondToApproval(Entry(w), c, AllowReq1)
        w4 == handleStreamLine(Entry(w3), ResultLine, c)
        w5 == sendMessage(Entry(w4), c, "hello", <<>>, TRUE)
        cur == w.managed[c].currentProcess
    IN  /\ w3.ret = TRUE
        /\ Len(w3.written) = 1
        /\ w3.written[1].pid = cur
        /\ w3.written[1].line =
              [type |-> "control_response",
               response |-> [subtype |-> "success", request_id |-> "req-1",
                             response |-> JsonStringify(
                                 [behavior |-> "allow", updatedInput |-> "input-A",
                                  toolUseID |-> "toolu-1"])]]
        /\ w3.managed[c].processState = "processing"
        /\ w3.managed[c].pendingApprovals = <<>>
        /\ w4.managed[c].processState = "idle"
        /\ w5.ret = TRUE
        /\ w5.managed[c].processState = "processing"

\* C23: happy path. On a chat as createChat left it, an accepted sendMessage
\* sets processing; a can_use_tool control_request for Bash then emits an
\* approval_prompt naming Bash and sets awaiting_approval;
\* respondToApproval(allow) writes the encoded control_response to the child
\* and sets processing again; a result line sets idle; and the next
\* sendMessage is accepted.
C23_HappyPath ==
    NoPendingError =>
        \A c \in chats :
            LET w1 == sendMessage(World, c, "hello", <<>>, TRUE)
                w2 == handleStreamLine(Entry(w1), BashRequestLine, c)
                prompts == Entries(w2.emitted, "approval_prompt")
            IN  (/\ managed[c].processState = "idle"
                 /\ ~managed[c].isProcessing
                 /\ managed[c].currentProcess = NoProcess
                 /\ Pending(c) = <<>>
                 /\ ~managed[c].autoApprove)
                => /\ w1.ret = TRUE
                   /\ w1.managed[c].processState = "processing"
                   /\ Len(prompts) = 1
                   /\ prompts[1].content.tool_name = "Bash"
                   /\ w2.managed[c].processState = "awaiting_approval"
                   /\ HappyFromApproval(w2, c)

\* the run has reached the middle of the happy path: the first turn's child
\* has asked for Bash and the chat awaits the approval; the rest follows
C23_Witness ==
    /\ NoPendingError
    /\ \E c \in chats :
        /\ Len(procs) = 1
        /\ managed[c].currentProcess \in Live(c)
        /\ managed[c].processState = "awaiting_approval"
        /\ managed[c].isProcessing
        /\ Len(Pending(c)) = 1
        /\ Pending(c)[1].request_id = "req-1"
        /\ Pending(c)[1].tool_name = "Bash"
        /\ HappyFromApproval(World, c)

\* has handler result w left chat c registered, reported an error, dropped
\* every pending approval, and is a following sendMessage accepted
Recovered(w, c) ==
    /\ c \in w.chats
    /\ \E i \in DOMAIN w.emitted :
          /\ w.emitted[i].event = "chat_status"
          /\ w.emitted[i].chat_id = c
          /\ w.emitted[i].process_state = "error"
    /\ w.managed[c].pendingApprovals = <<>>
    /\ sendMessage(Entry(w), c, "hello", <<>>, TRUE).ret = TRUE

\* C24: after a spawn error, and after an exit in the middle of a turn, the
\* chat is still registered, an error status event has been emitted, its
\* pending approvals are gone, and a following sendMessage is accepted.
C24_FailureKeepsChatUsable ==
    \A p \in DOMAIN procs :
        LET c == procs[p].chat IN
        c \in chats
        => /\ procs[p].state = "spawn_failed" => Recovered(onError(World, p), c)
           /\ (/\ CanExit(p)
               /\ managed[c].processState \in {"processing", "awaiting_approval"})
              => Recovered(onExit(World, p, "1"), c)

\* has handler result w emitted, for every chat, exactly one chat_status event
\* carrying the new value if the chat's turn state or status changed, and none
\* if neither changed
StatusDiscipline(w) ==
    \A c \in DOMAIN managed :
        LET old == managed[c]
            new == w.managed[c]
            turnChanged == new.processState # old.processState
            statusChanged == new.chat.status # old.chat.status
            status == SelectSeq(Events(w.emitted, "chat_status"), LAMBDA e : e.chat_id = c)
        IN  IF turnChanged \/ statusChanged
            THEN /\ Len(status) = 1
                 /\ turnChanged => status[1].process_state = new.processState
                 /\ statusChanged => status[1].status = new.chat.status
            ELSE status = <<>>

\* C25: every handler emits exactly one chat_status event, carrying the new
\* value, for a chat whose turn state or lifecycle status it changes, and no
\* chat_status event for a chat it leaves in the same turn state and status.
C25_OneStatusEventPerChange ==
    NoPendingError =>
        /\ \A c \in chats :
             /\ \A ok \in BOOLEAN : StatusDiscipline(sendMessage(World, c, "hello", <<>>, ok))
             /\ \A r \in CoreResponses : StatusDiscipline(respondToApproval(World, c, r))
             /\ \A en \in BOOLEAN : StatusDiscipline(setAutoApprove(World, c, en))
             /\ StatusDiscipline(stopChat(World, c))
        /\ \A p \in DOMAIN procs :
             /\ CanStdoutLine(p) =>
                  \A line \in CoreLines :
                     StatusDiscipline(handleStreamLine(World, line, procs[p].chat))
             /\ CanExit(p) => StatusDiscipline(onExit(World, p, "0"))

\* do the spawn arguments args select streaming JSON both ways and the
\* permission flags of mode
ArgsFitMode(args, mode) ==
    /\ HasPair(args, "--output-format", "stream-json")
    /\ HasPair(args, "--input-format", "stream-json")
    /\ IF mode = "assisted"
       THEN /\ HasPair(args, "--permission-prompt-tool", "stdio")
            /\ ~HasFlag(args, "--dangerously-skip-permissions")
       ELSE /\ HasFlag(args, "--dangerously-skip-permissions")
            /\ ~HasFlag(args, "--permission-prompt-tool")

\* C26: every spawn selects stream-json input and output; the arguments of a
\* chat in mode assisted hold --permission-prompt-tool stdio and not
\* --dangerously-skip-permissions, those of a chat in mode full_ai hold
\* --dangerously-skip-permissions and not --permission-prompt-tool; and no
\* handler changes a chat's permission mode, so every process of the chat was
\* spawned under the mode the chat has.
C26_ArgsFollowPermissionMode ==
    /\ \A p \in DOMAIN procs :
         ArgsFitMode(procs[p].args, managed[procs[p].chat].permissionMode)
    /\ NoPendingError =>
         \A c \in chats : \A ok \in BOOLEAN :
            LET w == sendMessage(World, c, "hello", <<>>, ok)
                mode == managed[c].permissionMode
            IN  /\ w.managed[c].permissionMode = mode
                /\ w.ret = TRUE => ArgsFitMode(w.procs[Len(w.procs)].args, mode)
                /\ stopChat(World, c).managed[c].permissionMode = mode
                /\ \A en \in BOOLEAN :
                      setAutoApprove(World, c, en).managed[c].permissionMode = mode
    /\ \A p \in DOMAIN procs :
         LET c == procs[p].chat
             mode == managed[c].permissionMode
         IN  /\ CanExit(p) => onExit(World, p, "0").managed[c].permissionMode = mode
             /\ CanStdoutLine(p) =>
                  handleStreamLine(World, ResultLine, c).managed[c].permissionMode = mode

\* a chat in mode full_ai has spawned twice
C26_Witness ==
    /\ Len(procs) = 2
    /\ \A p \in DOMAIN procs :
          /\ managed[procs[p].chat].permissionMode = "full_ai"
          /\ HasFlag(procs[p].args, "--dangerously-skip-permissions")
          /\ procs[p].state # "spawn_failed"


\* ---------------------------------------------------------------- C27
\* Two chats side by side, each with its turns and its approvals.
PairIds == {1, 2}

NextPair ==
    \/ Len(managed) < Cardinality(PairIds) /\ CreateChat(Undefined, Undefined, "assisted")
    \/ \E c \in PairIds : SendMessage(c, "hello", <<>>, TRUE)
    \/ \E c \in PairIds : RespondToApproval(c, AllowReq1)
    \/ \E c \in PairIds, en \in BOOLEAN : SetAutoApprove(c, en)
    \/ \E c \in PairIds : StopChat(c)
    \/ \E p \in DOMAIN procs, line \in {BashRequestLine, ResultLine} : StdoutLine(p, line)
    \/ \E p \in DOMAIN procs : ProcExit(p, "0")

SpecPair == Init /\ [][NextPair]_vars

\* has w, the result of a handler of chat c, left every other chat and the
\* processes of every other chat as they were, and does everything it emitted,
\* wrote or signalled belong to c
OnlyTouches(w, c) ==
    /\ w.chats = chats
    /\ \A d \in DOMAIN managed \ {c} : w.managed[d] = managed[d]
    /\ \A p \in DOMAIN procs : procs[p].chat # c => w.procs[p] = procs[p]
    /\ \A p \in DOMAIN w.procs \ DOMAIN procs : w.procs[p].chat = c
    /\ \A i \in DOMAIN w.emitted : w.emitted[i].chat_id = c
    /\ \A i \in DOMAIN w.written : w.procs[w.written[i].pid].chat = c
    /\ \A i \in DOMAIN w.signals : w.procs[w.signals[i]].chat = c

\* C27: a sendMessage, respondToApproval, setAutoApprove, stopChat, stdout
\* line or exit event of one chat leaves every other chat's state
\* (processState, pendingApprovals, autoApprove, messageCount, status, process
\* handle) unchanged, and every event it emits carries the id of the chat it
\* originated from.
C27_ChatsAreIsolated ==
    NoPendingError =>
        /\ \A c \in chats :
             /\ OnlyTouches(sendMessage(World, c, "hello", <<>>, TRUE), c)
             /\ \A r \in CoreResponses : OnlyTouches(respondToApproval(World, c, r), c)
             /\ \A en \in BOOLEAN : OnlyTouches(setAutoApprove(World, c, en), c)
             /\ OnlyTouches(stopChat(World, c), c)
        /\ \A p \in DOMAIN procs :
             /\ CanStdoutLine(p) =>
                  \A line \in CoreLines :
                      OnlyTouches(handleStreamLine(World, line, procs[p].chat), procs[p].chat)
             /\ CanExit(p) => OnlyTouches(onExit(World, p, "0"), procs[p].chat)

\* two chats, each in a turn with a request pending and its child running;
\* stopping the first one changes it and leaves the second alone
C27_Witness ==
    /\ chats = PairIds
    /\ \A c \in PairIds : Pending(c) # <<>> /\ Live(c) # {}
    /\ stopChat(World, 1).managed[1] # managed[1]
    /\ stopChat(World, 1).procs # procs
    /\ OnlyTouches(stopChat(World, 1), 1)


\* ---------------------------------------------------------------- C28
\* the can_use_tool control_request lines that carry request id r
RequestLines(r) == {line \in CoreLines : IsApprovalRequest(line, r)}

\* C28: a request id that an accepted respondToApproval has removed from the
\* chat's pendingApprovals is not pending again after the child prints another
\* control_request carrying the same request_id.
C28_AnsweredIdNotReinserted ==
    NoPendingError =>
        \A c \in chats : \A r \in CoreResponses :
            LET w1 == respondToApproval(World, c, r)
            IN  w1.ret = TRUE =>
                    /\ ~MapHas(w1.managed[c].pendingApprovals, r.request_id)
                    /\ \A p \in DOMAIN procs :
                         CanStdoutLine(p) /\ procs[p].chat = c =>
                             \A line \in RequestLines(r.request_id) :
                                 ~MapHas(handleStreamLine(Entry(w1), line, c)
                                             .managed[c].pendingApprovals,
                                         r.request_id)


\* ---------------------------------------------------------------- C29
\* C29: when the process that stopChat killed exits, the chat stays stopped:
\* its stored status is still "stopped", its process handle is released, and
\* the exit handler emits no chat_status event with a status other than
\* "stopped".
C29_ExitAfterStopStaysStopped ==
    NoPendingError =>
        \A p \in DOMAIN procs :
            LET c == procs[p].chat
            IN  /\ CanExit(p)
                /\ procs[p].killed
                /\ managed[c].currentProcess = p
                /\ managed[c].chat.status = "stopped"
                => \A code \in ExitCodes :
                     LET w == onExit(World, p, code)
                         status == Events(w.emitted, "chat_status")
                     IN  /\ w.managed[c].chat.status = "stopped"
                         /\ w.managed[c].currentProcess = NoProcess
                         /\ \A i \in DOMAIN status : status[i].status = "stopped"


\* ---------------------------------------------------------------- C30
\* are all stdin writes of handler result w, which answered request id r of
\* chat c, writes to the process whose stdout carried r
AnsweredToOrigin(w, c, r) ==
    \A i \in DOMAIN w.written :
        w.written[i].line.response.request_id = r => w.written[i].pid = origin[c][r]

\* C30: respondToApproval and setAutoApprove write the control_response of a
\* request only to the stdin of the process that printed the request, never to
\* the process of a later turn.
C30_ResponseGoesToRequester ==
    NoPendingError =>
        \A c \in chats : \A r \in RequestIds :
            /\ \A resp \in CoreResponses :
                 resp.request_id = r =>
                     AnsweredToOrigin(respondToApproval(World, c, resp), c, r)
            /\ AnsweredToOrigin(setAutoApprove(World, c, TRUE), c, r)


\* ---------------------------------------------------------------- C31
\* the fields of chat c that belong to its current turn, and whether the
\* reader of its current process is open
TurnOf(w, c) ==
    LET m == w.managed[c]
    IN  [processState |-> m.processState, isProcessing |-> m.isProcessing,
         currentProcess |-> m.currentProcess, stdoutRL |-> m.stdoutRL,
         rlOpen |-> w.procs[m.stdoutRL].rlOpen]

\* C31: the exit event of a process of an earlier turn, delivered after a
\* later process was spawned for the chat, leaves the later turn's
\* processState, isProcessing, process handle and stdout reader unchanged.
C31_OldExitLeavesNewTurn ==
    NoPendingError =>
        \A p \in DOMAIN procs :
            LET c == procs[p].chat
            IN  CanExit(p) /\ managed[c].currentProcess > p =>
                    \A code \in ExitCodes :
                        TurnOf(onExit(World, p, code), c) = TurnOf(World, c)


\* ---------------------------------------------------------------- C32
\* C32: the in-flight flag agrees with the turn state: isProcessing is true
\* exactly when processState is processing or awaiting_approval (so a
\* sendMessage in one of these two states is rejected).
C32_FlagAgreesWithTurnState ==
    \A c \in chats :
        managed[c].isProcessing
            <=> managed[c].processState \in {"processing", "awaiting_approval"}


\* ---------------------------------------------------------------- C33
\* C33: a chat whose stored status is "stopped" owns no live process
\* afterwards: a sendMessage on it spawns no child.
C33_StoppedChatSpawnsNothing ==
    NoPendingError =>
        \A c \in chats :
            managed[c].chat.status = "stopped" =>
                LET w == sendMessage(World, c, "hello", <<>>, TRUE)
                IN  /\ w.ret = FALSE
                    /\ w.procs = procs


\* ---------------------------------------------------------------- C34
\* does the status of the last chat_status event handler result w emitted for
\* chat c equal the status stored for c (what getChat returns and cleanup reads)
LastStatusIsStored(w, c) ==
    LET status == Events(w.emitted, "chat_status")
    IN  status # <<>> => status[Len(status)].status = w.managed[c].chat.status

\* C34: the status of the most recent chat_status event of a chat is the
\* status stored for the chat; a chat whose failure was reported with status
\* "error" is stored as error, so the next cleanup() removes it.
C34_ReportedStatusIsStored ==
    /\ NoPendingError =>
         /\ \A c \in chats :
              /\ \A ok \in BOOLEAN :
                   LastStatusIsStored(sendMessage(World, c, "hello", <<>>, ok), c)
              /\ \A r \in CoreResponses :
                   LastStatusIsStored(respondToApproval(World, c, r), c)
              /\ LastStatusIsStored(stopChat(World, c), c)
         /\ \A p \in DOMAIN procs :
              /\ CanStdoutLine(p) =>
                   \A line \in CoreLines :
                       LastStatusIsStored(handleStreamLine(World, line, procs[p].chat),
                                          procs[p].chat)
              /\ CanExit(p) =>
                   \A code \in ExitCodes :
                       LastStatusIsStored(onExit(World, p, code), procs[p].chat)
    /\ \A p \in DOMAIN procs :
         procs[p].state = "spawn_failed" /\ procs[p].chat \in chats =>
             LET w == onError(World, p)
             IN  /\ LastStatusIsStored(w, procs[p].chat)
                 /\ procs[p].chat \notin cleanup(Entry(w)).chats


\* ---------------------------------------------------------------- C35
\* the request id an approval request line carries
RequestIdOf(line) == line.msg.request_id

\* C35: handling a control_request emits an auto_approval log entry only if
\* an allow control_response for that request was written to the child's stdin
\* and the request is no longer pending; without a process to write to, no
\* auto_approval entry is emitted.
C35_AutoApprovalLoggedOnlyIfAnswered ==
    NoPendingError =>
        \A p \in DOMAIN procs :
            CanStdoutLine(p) =>
                \A line \in {l \in CoreLines : IsCanUseTool(l)} :
                    LET c == procs[p].chat
                        w == handleStreamLine(World, line, c)
                    IN  LogEntries(w.emitted, "auto_approval") # <<>> =>
                            /\ \E i \in DOMAIN w.written :
                                 /\ w.written[i].line.response.request_id = RequestIdOf(line)
                                 /\ w.written[i].line.response.response.behavior = "allow"
                            /\ ~MapHas(w.managed[c].pendingApprovals, RequestIdOf(line))


\* ---------------------------------------------------------------- C36
\* does handler result w write only to processes that, before the handler
\* ran, were running and had not been sent a termination signal
WritesOnlyToLive(w) ==
    \A i \in DOMAIN w.written :
        LET pid == w.written[i].pid
        IN  procs[pid].state = "running" /\ ~procs[pid].killed

\* C36: neither the delayed user message nor a control_response is written to
\* the stdin of a process that has exited or that stopChat has signalled; with
\* the pipe gone, respondToApproval reports failure.
C36_NoWriteToDeadProcess ==
    NoPendingError =>
        /\ \A p \in DOMAIN procs :
             procs[p].timer = "pending" => WritesOnlyToLive(onTimer(World, p))
        /\ \A c \in chats : \A r \in CoreResponses :
             LET w == respondToApproval(World, c, r)
             IN  /\ WritesOnlyToLive(w)
                 /\ Live(c) = {} => w.ret = FALSE


\* ---------------------------------------------------------------- C37
\* C37: the delayed write of an accepted sendMessage writes one user message
\* line, the message of that call, to the stdin of the process the call
\* spawned, and until it has fired no control_response is written to that
\* process.
C37_UserMessageFirstToOwnProcess ==
    NoPendingError =>
        /\ \A p \in DOMAIN procs :
             procs[p].timer = "pending" =>
                 LET w == onTimer(World, p)
                 IN  /\ w.written = <<[pid |-> p, line |-> procs[p].userMsg,
                                       destroyed |-> procs[p].state # "running"]>>
                     /\ w.procs[p].timer = "fired"
        /\ \A c \in chats : \A r \in CoreResponses :
             LET w == respondToApproval(World, c, r)
             IN  \A i \in DOMAIN w.written : procs[w.written[i].pid].timer = "fired"


\* ---------------------------------------------------------------- C38
\* messageCount at creation: 1 for a chat created with an existing session id
InitialCount(c) == IF managed[c].sessionId = RandomUUID(c) THEN 0 ELSE 1

\* the accepted sendMessage calls of chat c: each one spawned one process
Accepted(c) == {p \in DOMAIN procs : procs[p].chat = c}

\* C38: messageCount is its initial value (0 for a new conversation, 1 for a
\* resumed one) plus the number of accepted sendMessage calls of the chat: an
\* accepted sendMessage adds one, and a rejected sendMessage, an approval, a
\* stdout line, an exit, a spawn error and a stop leave it unchanged.
C38_MessageCountCountsAcceptedSends ==
    \A c \in chats :
        LET n == managed[c].messageCount
            count(w) == w.managed[c].messageCount
        IN  /\ n = InitialCount(c) + Cardinality(Accepted(c))
            /\ NoPendingError =>
                 /\ \A ok \in BOOLEAN :
                      LET w == sendMessage(World, c, "hello", <<>>, ok)
                      IN  count(w) = IF w.ret = TRUE THEN n + 1 ELSE n
                 /\ count(stopChat(World, c)) = n
                 /\ \A en \in BOOLEAN : count(setAutoApprove(World, c, en)) = n
                 /\ \A r \in CoreResponses : count(respondToApproval(World, c, r)) = n
            /\ \A p \in Accepted(c) :
                 /\ CanStdoutLine(p) =>
                      /\ \A line \in CoreLines : count(handleStreamLine(World, line, c)) = n
                      /\ count(respondToApproval(
                                  Entry(handleStreamLine(World, BashRequestLine, c)),
                                  c, AllowReq1)) = n
                 /\ CanExit(p) => \A code \in ExitCodes : count(onExit(World, p, code)) = n
                 /\ procs[p].state = "spawn_failed" => count(onError(World, p)) = n

\* a resumed chat after its second accepted sendMessage: messageCount is 3
C38_Witness ==
    \E c \in chats :
        /\ InitialCount(c) = 1
        /\ Cardinality(Accepted(c)) = 2
        /\ managed[c].messageCount = 3
        /\ managed[c].isProcessing
        /\ sendMessage(World, c, "hello", <<>>, TRUE).ret = FALSE


\* ---------------------------------------------------------------- C39
\* One chat whose children all come to an end: the event loop delivers the
\* 'exit' event of every child that was spawned and the 'error' event of every
\* child that failed to spawn.
NextLive ==
    \/ managed = <<>> /\ CreateChat(Undefined, Undefined, "assisted")
    \/ \E c \in ChatIds, ok \in BOOLEAN : SendMessage(c, "hello", <<>>, ok)
    \/ \E c \in ChatIds : RespondToApproval(c, AllowReq1)
    \/ \E c \in ChatIds : StopChat(c)
    \/ \E p \in DOMAIN procs, line \in {BashRequestLine, ResultLine} : StdoutLine(p, line)
    \/ \E p \in DOMAIN procs : ProcExit(p, "0")
    \/ \E p \in DOMAIN procs : ProcError(p)

ChildrenEnd ==
    \A p \in 1..(MaxProcs + 1) :
        /\ WF_vars(p \in DOMAIN procs /\ ProcExit(p, "0"))
        /\ WF_vars(p \in DOMAIN procs /\ ProcError(p))

SpecLive == Init /\ [][NextLive]_vars /\ ChildrenEnd

\* chat c is in a turn
InFlight(c) ==
    /\ c \in chats
    /\ \/ managed[c].isProcessing
       \/ managed[c].processState \in {"processing", "awaiting_approval"}

\* chat c is out of its turn: not in flight, handle released, and a
\* sendMessage issued now is accepted
Free(c) ==
    /\ c \in chats
    /\ NoPendingError
    /\ ~InFlight(c)
    /\ managed[c].currentProcess = NoProcess
    /\ sendMessage(World, c, "hello", <<>>, TRUE).ret = TRUE

\* C39: when the children of a chat come to an end (exit, or fail to spawn),
\* a chat that is in a turn eventually leaves the in-flight states with its
\* process handle released and accepts the next sendMessage; it is never left
\* rejecting sendMessage for ever.
C39_EndedTurnFreesTheChat ==
    \A c \in ChatIds : InFlight(c) ~> Free(c)

\* a chat freed by the exit of its child while a request was still pending
C39_Witness ==
    \E c \in chats :
        /\ Free(c)
        /\ managed[c].processState = "finished"
        /\ Pending(c) # <<>>
        /\ \E p \in DOMAIN procs : procs[p].chat = c /\ procs[p].state = "exited"

====
